---- MODULE Spec2Model ----
(***************************************************************************)
(* Payment collection server (src/server.ts): the payments table, the      *)
(* payment_status setting and the HTTP handlers that act on them.          *)
(* better-sqlite3 is synchronous and no handler awaits, so every handler   *)
(* runs to completion: one action per handler.  The React client           *)
(* (src/unnamed/part_000) is the record client; SpecClient runs its        *)
(* callbacks against the handlers.                                         *)
(***************************************************************************)
EXTENDS Integers, Sequences, FiniteSets, TLC

\* ---------------------------------------------------------------- bounds
\* largest rowid the model lets AUTOINCREMENT hand out
MaxId == 3
\* largest number of rows the model lets the table hold
MaxRows == 2
\* last instant of the modelled clock (instants are 0..MaxNow)
MaxNow == 1
\* instants per calendar day (CURRENT_TIMESTAMP has finer grain than a day)
TicksPerDay == 1
\* rows the model lets a day of MaxSeq rows take on top
ExtraRows == 2

\* ------------------------------------------------------- program constants
\* padStart(4, '0') of the sequential number
SeqWidth == 4

\* A column or JSON value is <<v>>; SQL NULL, or a field that is absent from
\* the request body, is the empty tuple.
NULL == <<>>
Some(v) == <<v>>
Val(x) == x[1]

\* ------------------------------------------------------------ submissions
\* A phone number is a sequence of character codes: 0..9 are the digits.
Phone10 == <<9, 8, 7, 6, 5, 4, 3, 2, 1, 0>>
Phone5 == <<1, 2, 3, 4, 5>>

\* Request body of the two payment routes (req.body, destructured).
Body(name, phone, address, amount) ==
    [name |-> name, phone |-> phone, address |-> address, amount |-> amount]

\* Request bodies: one that the client's form accepts, one with a 5-digit
\* phone, one with an amount of 99, one with an empty name, one without an
\* amount.
Bodies ==
    { Body(Some("A"), Some(Phone10), Some("X"), Some(100)),
      Body(Some("A"), Some(Phone5),  Some("X"), Some(100)),
      Body(Some("A"), Some(Phone10), Some("X"), Some(99)),
      Body(Some(""),  Some(Phone10), Some("X"), Some(100)),
      Body(Some("A"), Some(Phone10), Some("X"), NULL) }

\* The bodies the model sends to /api/submit-manual-payment.
SubmitBodies ==
    { Body(Some("A"), Some(Phone10), Some("X"), Some(100)),
      Body(Some("A"), Some(Phone5),  Some("X"), Some(100)),
      Body(Some("A"), Some(Phone10), Some("X"), NULL) }

\* ------------------------------------------------------------------ state
VARIABLES
    payments,     \* rows of table payments
    sqlite_seq,   \* AUTOINCREMENT high-water mark of payments.id
    setting,      \* settings['payment_status']
    now,          \* the clock: new Date(), date('now'), CURRENT_TIMESTAMP
    last,         \* the handler that ran last and its response
    snap,         \* history: the table before the last clear-payments
    client        \* the state of the React client (src/unnamed/part_000)

vars == <<payments, sqlite_seq, setting, now, last, snap, client>>

\* ---------------------------------------------------------- clock and dates
DayOf(t) == t \div TicksPerDay

\* date('now'): the first instant of the current day
DateNow(t) == DayOf(t) * TicksPerDay

\* today.toISOString().slice(0, 10).replace(/-/g, ''): the digits YYYYMMDD
DateStr(t) == 20260101 + DayOf(t)

\* ------------------------------------------------------ transaction ids
RECURSIVE Digits(_)
\* Number.prototype.toString(): the decimal digits, most significant first
Digits(n) == IF n < 10 THEN <<n>> ELSE Append(Digits(n \div 10), n % 10)

RECURSIVE PadStart(_, _, _)
\* String.prototype.padStart(width, fill): never truncates
PadStart(s, width, fill) ==
    IF Len(s) >= width THEN s ELSE PadStart(<<fill>> \o s, width, fill)

\* Variant: SELECT COUNT(*) FROM payments WHERE created_at >= date('now')
\* AND is_trashed = 0
CountToday_ActiveOnly(table, t) ==
    Cardinality({p \in table : p.created_at >= DateNow(t) /\ p.is_trashed = 0})

\* Variant: SELECT COUNT(*) FROM payments
CountToday_AllDays(table, t) == Cardinality(table)

\* SELECT COUNT(*) FROM payments WHERE created_at >= date('now')
CountToday(table, t) ==
    Cardinality({p \in table : p.created_at >= DateNow(t)})

\* `REC-${dateStr}-${sequentialNumber}`
TransactionId(table, t) ==
    [prefix |-> "REC",
     date   |-> DateStr(t),
     seq    |-> PadStart(Digits(CountToday(table, t) + 1), SeqWidth, 0)]

\* ------------------------------------------------------------ table payments
\* Variant: id INTEGER PRIMARY KEY without AUTOINCREMENT, the rowid is one
\* more than the largest rowid in the table.
NewRow_MaxRowid(seqno, tid, s, t) ==
    [id |-> 1 + Cardinality({i \in 1..seqno : \E p \in payments : p.id >= i}),
     transaction_id |-> tid,
     name |-> s.name, phone |-> s.phone, address |-> s.address,
     amount |-> s.amount, status |-> "success",
     is_trashed |-> 0, created_at |-> t]

\* Variant: the INSERT passes 'pending' for status.
NewRow_Pending(seqno, tid, s, t) ==
    [id |-> seqno + 1, transaction_id |-> tid,
     name |-> s.name, phone |-> s.phone, address |-> s.address,
     amount |-> s.amount, status |-> "pending",
     is_trashed |-> 0, created_at |-> t]

\* The row an INSERT builds: id from AUTOINCREMENT, the column defaults for
\* is_trashed and created_at.
NewRow(seqno, tid, s, t) ==
    [id |-> seqno + 1, transaction_id |-> tid,
     name |-> s.name, phone |-> s.phone, address |-> s.address,
     amount |-> s.amount, status |-> "success",
     is_trashed |-> 0, created_at |-> t]

\* NOT NULL on name, phone, address, amount
NotNullOk(row) ==
    /\ row.name # NULL
    /\ row.phone # NULL
    /\ row.address # NULL
    /\ row.amount # NULL

\* Variant: the column is declared without UNIQUE.
UniqueOk_NoConstraint(table, row) == TRUE

\* transaction_id TEXT UNIQUE
UniqueOk(table, row) ==
    \A p \in table : p.transaction_id # row.transaction_id

\* stmt.run(...) of the INSERT: the row is added, or the statement throws
\* and nothing changes.
InsertPayment(table, row) ==
    IF NotNullOk(row) /\ UniqueOk(table, row)
    THEN [ok |-> TRUE, table |-> table \cup {row}]
    ELSE [ok |-> FALSE, table |-> table]

\* Variant: UPDATE payments SET is_trashed = 1 - is_trashed WHERE id = ?
SetTrashedById_Toggle(table, id, v) ==
    {IF p.id = id THEN [p EXCEPT !.is_trashed = 1 - p.is_trashed] ELSE p :
        p \in table}

\* Variant: UPDATE payments SET is_trashed = v
SetTrashedById_AllRows(table, id, v) ==
    {[p EXCEPT !.is_trashed = v] : p \in table}

\* UPDATE payments SET is_trashed = v WHERE id = ?
SetTrashedById(table, id, v) ==
    {IF p.id = id THEN [p EXCEPT !.is_trashed = v] ELSE p : p \in table}

\* Variant: DELETE FROM payments WHERE is_trashed = 1
DeleteTrashedById_AllTrashed(table, id) == {p \in table : p.is_trashed # 1}

\* Variant: the DELETE removes nothing.
DeleteTrashedById_Nothing(table, id) == table

\* Variant: DELETE FROM payments WHERE id = ?
DeleteTrashedById_AnyState(table, id) == {p \in table : p.id # id}

\* DELETE FROM payments WHERE id = ? AND is_trashed = 1
DeleteTrashedById(table, id) ==
    {p \in table : ~(p.id = id /\ p.is_trashed = 1)}

\* Variant: a loop that has written only the active row of the smallest id.
TrashAll_OneRow(table) ==
    {IF p.is_trashed = 0 /\ (\A q \in table : q.is_trashed = 0 => p.id <= q.id)
     THEN [p EXCEPT !.is_trashed = 1] ELSE p : p \in table}

\* UPDATE payments SET is_trashed = 1 WHERE is_trashed = 0
TrashAll(table) ==
    {IF p.is_trashed = 0 THEN [p EXCEPT !.is_trashed = 1] ELSE p : p \in table}

\* Variant: the UPDATE restores nothing.
RestoreAll_Nothing(table) == table

\* Variant: UPDATE payments SET is_trashed = 0, status = 'restored' WHERE
\* is_trashed = 1
RestoreAll_WritesStatus(table) ==
    {IF p.is_trashed = 1
     THEN [p EXCEPT !.is_trashed = 0, !.status = "restored"] ELSE p :
        p \in table}

\* UPDATE payments SET is_trashed = 0 WHERE is_trashed = 1
RestoreAll(table) ==
    {IF p.is_trashed = 1 THEN [p EXCEPT !.is_trashed = 0] ELSE p : p \in table}

\* Variant: DELETE FROM payments
DeleteAllTrashed_Everything(table) == {}

\* DELETE FROM payments WHERE is_trashed = 1
DeleteAllTrashed(table) == {p \in table : p.is_trashed # 1}

\* SELECT * FROM payments WHERE is_trashed = 0 (as a set of rows)
ActiveRows(table) == {p \in table : p.is_trashed = 0}

\* SELECT * FROM payments WHERE is_trashed = 1 (as a set of rows)
TrashedRows(table) == {p \in table : p.is_trashed = 1}

\* ORDER BY created_at DESC: the sequences that hold each of the rows once
\* with created_at non-increasing. SQL leaves the order of rows with equal
\* created_at open, so each such sequence is a possible result.
OrderByCreatedAtDesc(rows) ==
    {r \in [1..Cardinality(rows) -> rows] :
        \A i, j \in 1..Cardinality(rows) :
            i < j => (r[i] # r[j] /\ r[i].created_at >= r[j].created_at)}

\* ---------------------------------------------------------------- history
NoSnap == [taken |-> FALSE, table |-> {}]

\* The record kept of a handler run: route, request argument, HTTP status,
\* error text, the transactionId, the upiUrl, the success, the token and
\* the value member of the response body and the array of rows a listing
\* answers (NULL when the body has none), the number of INSERT statements
\* the handler executed, and whether the request repeats the request of a
\* submission that has just failed with status 500.
\* The argument is kept for the submissions.
Resp(op, arg, code, err, tid, inserts) ==
    [op |-> op, arg |-> arg, code |-> code, error |-> err,
     tid |-> tid, upiUrl |-> <<>>, success |-> NULL, token |-> NULL,
     value |-> NULL, rows |-> NULL, inserts |-> inserts, again |-> FALSE]

\* A response without request argument / without transactionId.
NoArg == NULL
NoTid == NULL
NoErr == "none"

\* `upi://pay?pa=${upiId}&pn=${adminName}&am=${amount}&cu=INR&tn=Payment from
\* ${name}`: the fields of the URL, with the defaults of ADMIN_UPI_ID and
\* ADMIN_NAME.
UpiUrl(s) ==
    <<"9511648488@ybl", "Abhay Rathod", s.amount, "INR", s.name>>

\* res.json({ success: true }) of an admin route
AdminOk(op) ==
    [Resp(op, NoArg, 200, NoErr, NoTid, 0) EXCEPT !.success = Some(TRUE)]

\* ------------------------------------------------------------- the client
\* The React client (src/unnamed/part_000, function App).  Its state is the
\* useState cells that decide which view is rendered and which requests are
\* sent; the lists of rows, the error banner, the search box and lastPayment
\* only feed the rendering and are left out.  A text field holds a string;
\* the phone field holds its digits.

\* What the model types into the four fields of the form.
Names == {"A"}
Phones == {Phone5, Phone10}
Addresses == {"X"}
Amounts == {"99", "100"}

\* useState({ name: '', phone: '', address: '', amount: '' })
EmptyForm == [name |-> "", phone |-> <<>>, address |-> "", amount |-> ""]

\* The forms the model lets the fields hold: the user fills the empty form
\* from the first field to the last, and then retypes the phone number or
\* the amount.
Typed ==
    { EmptyForm,
      [name |-> "A", phone |-> <<>>,    address |-> "",  amount |-> ""],
      [name |-> "A", phone |-> Phone10, address |-> "",  amount |-> ""],
      [name |-> "A", phone |-> Phone10, address |-> "X", amount |-> ""],
      [name |-> "A", phone |-> Phone10, address |-> "X", amount |-> "100"],
      [name |-> "A", phone |-> Phone10, address |-> "X", amount |-> "99"],
      [name |-> "A", phone |-> Phone5,  address |-> "X", amount |-> "100"] }

\* parseFloat of the text of the amount field: NaN for the empty text (NaN
\* is written NULL: JSON.stringify turns it into null).
ParseFloat(text) ==
    CASE text = "99" -> Some(99)
      [] text = "100" -> Some(100)
      [] OTHER -> NULL

\* !formData.name || !formData.phone || !formData.address || !formData.amount
FieldMissing(f) ==
    f.name = "" \/ f.phone = <<>> \/ f.address = "" \/ f.amount = ""

\* /^\d{10}$/.test(formData.phone)
TenDigits(phone) ==
    Len(phone) = 10 /\ \A i \in 1..Len(phone) : phone[i] \in 0..9

\* parseFloat(formData.amount) < 100: false for NaN
BelowMinimum(f) ==
    ParseFloat(f.amount) # NULL /\ Val(ParseFloat(f.amount)) < 100

\* The three checks of handlePayment let the form through.
FormAccepted(f) ==
    ~FieldMissing(f) /\ TenDigits(f.phone) /\ ~BelowMinimum(f)

\* JSON.stringify({ ...formData, amount: parseFloat(formData.amount) })
JsonBody(f) ==
    Body(Some(f.name), Some(f.phone), Some(f.address), ParseFloat(f.amount))

\* The client once App has mounted: the form is shown, nobody is logged in
\* and localStorage holds noReceipts = 'true'.  fetchPaymentStatus, called
\* on mount, answers the setting, which this one client already shows: it
\* is the only one to change it.  initiating, confirming and logins are
\* the requests in flight; a request keeps, as history, the form that
\* handlePayment checked (initiating) or the view it was sent from and the
\* form that was checked for the QR view (confirming).  validated is that
\* form, NULL before the QR view has been entered.
ClientInit ==
    [view |-> "form", loading |-> FALSE, formData |-> EmptyForm,
     upiUrl |-> <<>>, adminAuth |-> FALSE, paymentStatus |-> "active",
     noReceipts |-> TRUE,
     initiating |-> {}, confirming |-> {}, logins |-> {},
     validated |-> NULL]

\* ------------------------------------------------------------------- Init
\* payments.db as created by the CREATE TABLE / INSERT OR IGNORE script.
Init ==
    /\ payments = {}
    /\ sqlite_seq = 0
    /\ setting = "active"
    /\ now = 0
    /\ last = Resp("start", NoArg, 0, NoErr, NoTid, 0)
    /\ snap = NoSnap
    /\ client = ClientInit

\* --------------------------------------------------------------- handlers
\* Variant: the handlers do not look at the setting.
Paused_Ignored(value) == FALSE

\* status.value === 'paused'
Paused(value) == value = "paused"

\* Variant: initiate stores a row for the payment it announces.
Initiate_StoresRow(s) ==
    /\ ~Paused(setting)
    /\ sqlite_seq < MaxId
    /\ Cardinality(payments) < MaxRows
    /\ NotNullOk(NewRow(sqlite_seq, TransactionId(payments, now), s, now))
    /\ payments' = payments \cup
           {NewRow(sqlite_seq, TransactionId(payments, now), s, now)}
    /\ sqlite_seq' = sqlite_seq + 1
    /\ last' = [Resp("initiate", NoArg, 200, NoErr, NoTid, 0)
                   EXCEPT !.upiUrl = UpiUrl(s)]
    /\ snap' = NoSnap
    /\ UNCHANGED <<setting, now>>

\* POST /api/initiate-manual-payment
Initiate(s) ==
    /\ last' = IF Paused(setting)
               THEN Resp("initiate", NoArg, 403, "paused", NoTid, 0)
               ELSE [Resp("initiate", NoArg, 200, NoErr, NoTid, 0)
                       EXCEPT !.upiUrl = UpiUrl(s)]
    /\ snap' = NoSnap
    /\ UNCHANGED <<payments, sqlite_seq, setting, now>>

\* The handler of POST /api/submit-manual-payment as a function of the
\* database, the clock and the body: the response and the database after it.
SubmitOutcome(table, seqno, value, t, s) ==
    LET tid == TransactionId(table, t)
        row == NewRow(seqno, tid, s, t)
        ins == InsertPayment(table, row)
    IN  IF Paused(value)
        THEN [code |-> 403, error |-> "paused", tid |-> NoTid, inserts |-> 0,
              table |-> table, seqno |-> seqno]
        ELSE IF ins.ok
        THEN [code |-> 200, error |-> NoErr, tid |-> Some(tid), inserts |-> 1,
              table |-> ins.table, seqno |-> seqno + 1]
        ELSE [code |-> 500, error |-> "Failed to save payment", tid |-> NoTid,
              inserts |-> 1, table |-> table, seqno |-> seqno]

\* Variant: the submission is refused with 500 unless the handler that ran
\* before it was an initiate.
SubmitHandler_NeedsInitiate(s) ==
    LET out == SubmitOutcome(payments, sqlite_seq, setting, now, s)
        seen == last.op = "initiate"
    IN  /\ payments' = IF seen THEN out.table ELSE payments
        /\ sqlite_seq' = IF seen THEN out.seqno ELSE sqlite_seq
        /\ last' = IF seen
                   THEN Resp("submit", Some(s), out.code, out.error, out.tid,
                             out.inserts)
                   ELSE Resp("submit", Some(s), 500, "Failed to save payment",
                             NoTid, 0)
        /\ snap' = NoSnap
        /\ UNCHANGED <<setting, now>>

\* The handler of POST /api/submit-manual-payment as a step.
SubmitHandler(s) ==
    LET out == SubmitOutcome(payments, sqlite_seq, setting, now, s)
        again == last.op = "submit" /\ last.arg = Some(s) /\ last.code = 500
    IN  /\ payments' = out.table
        /\ sqlite_seq' = out.seqno
        /\ last' = [Resp("submit", Some(s), out.code, out.error, out.tid,
                            out.inserts)
                       EXCEPT !.again = again]
        /\ snap' = NoSnap
        /\ UNCHANGED <<setting, now>>

\* POST /api/submit-manual-payment, while the table has room for a row
Submit(s) ==
    /\ SubmitOutcome(payments, sqlite_seq, setting, now, s).code = 200 =>
           (sqlite_seq < MaxId /\ Cardinality(payments) < MaxRows)
    /\ SubmitHandler(s)

\* process.env.ADMIN_USERNAME || "Abhay", process.env.ADMIN_PASSWORD ||
\* "Abhay123": the configured credentials, here the defaults.
adminUser == "Abhay"
adminPass == "Abhay123"

\* Variant: only the username is compared.
CredentialsOk_UserOnly(username, password) == username = adminUser

\* username === adminUser && password === adminPass
CredentialsOk(username, password) ==
    username = adminUser /\ password = adminPass

\* POST /api/admin/login
Login(username, password) ==
    /\ last' = IF CredentialsOk(username, password)
               THEN [Resp("login", NoArg, 200, NoErr, NoTid, 0)
                       EXCEPT !.success = Some(TRUE),
                              !.token = Some("admin-session-token")]
               ELSE [Resp("login", NoArg, 401, "Invalid credentials", NoTid, 0)
                       EXCEPT !.success = Some(FALSE)]
    /\ snap' = NoSnap
    /\ UNCHANGED <<payments, sqlite_seq, setting, now>>

\* Variant: the value read when the server started is answered.
SelectStatus_Stale(value) == "active"

\* SELECT value FROM settings WHERE key = 'payment_status'
SelectStatus(value) == value

\* GET /api/admin/payments
GetPayments ==
    /\ \E r \in OrderByCreatedAtDesc(ActiveRows(payments)) :
           last' = [Resp("payments", NoArg, 200, NoErr, NoTid, 0)
                      EXCEPT !.rows = Some(r)]
    /\ snap' = NoSnap
    /\ UNCHANGED <<payments, sqlite_seq, setting, now>>

\* GET /api/admin/trash
GetTrash ==
    /\ \E r \in OrderByCreatedAtDesc(TrashedRows(payments)) :
           last' = [Resp("trash", NoArg, 200, NoErr, NoTid, 0)
                      EXCEPT !.rows = Some(r)]
    /\ snap' = NoSnap
    /\ UNCHANGED <<payments, sqlite_seq, setting, now>>

\* GET /api/payment-status
GetStatus ==
    /\ last' = [Resp("payment-status", NoArg, 200, NoErr, NoTid, 0)
                   EXCEPT !.value = Some(SelectStatus(setting))]
    /\ snap' = NoSnap
    /\ UNCHANGED <<payments, sqlite_seq, setting, now>>

\* Variant: every status value is accepted.
InvalidStatus_Never(v) == FALSE

\* status !== 'active' && status !== 'paused'
InvalidStatus(v) == v # "active" /\ v # "paused"

\* POST /api/admin/update-status
UpdateStatus(v) ==
    /\ IF InvalidStatus(v)
       THEN /\ last' = Resp("update-status", NoArg, 400, "Invalid status", NoTid, 0)
            /\ UNCHANGED setting
       ELSE /\ setting' = v
            /\ last' = AdminOk("update-status")
    /\ snap' = NoSnap
    /\ UNCHANGED <<payments, sqlite_seq, now>>

\* POST /api/admin/delete-payment/:id
DeletePayment(id) ==
    /\ payments' = SetTrashedById(payments, id, 1)
    /\ last' = AdminOk("delete-payment")
    /\ snap' = NoSnap
    /\ UNCHANGED <<sqlite_seq, setting, now>>

\* POST /api/admin/restore-payment/:id
RestorePayment(id) ==
    /\ payments' = SetTrashedById(payments, id, 0)
    /\ last' = AdminOk("restore-payment")
    /\ snap' = NoSnap
    /\ UNCHANGED <<sqlite_seq, setting, now>>

\* POST /api/admin/permanent-delete/:id
PermanentDelete(id) ==
    /\ payments' = DeleteTrashedById(payments, id)
    /\ last' = AdminOk("permanent-delete")
    /\ snap' = NoSnap
    /\ UNCHANGED <<sqlite_seq, setting, now>>

\* POST /api/admin/clear-payments
ClearPayments ==
    /\ payments' = TrashAll(payments)
    /\ last' = AdminOk("clear-payments")
    /\ snap' = [taken |-> TRUE, table |-> payments]
    /\ UNCHANGED <<sqlite_seq, setting, now>>

\* POST /api/admin/restore-payments
RestorePayments ==
    /\ payments' = RestoreAll(payments)
    /\ last' = AdminOk("restore-payments")
    /\ snap' = IF last.op = "clear-payments" THEN snap ELSE NoSnap
    /\ UNCHANGED <<sqlite_seq, setting, now>>

\* POST /api/admin/empty-trash
EmptyTrash ==
    /\ payments' = DeleteAllTrashed(payments)
    /\ last' = AdminOk("empty-trash")
    /\ snap' = NoSnap
    /\ UNCHANGED <<sqlite_seq, setting, now>>

\* The clock advances between two handler runs.
Tick ==
    /\ now < MaxNow
    /\ now' = now + 1
    /\ UNCHANGED <<payments, sqlite_seq, setting, last, snap>>

\* req.params.id of the admin routes
Ids == 1..MaxId

\* req.body.status of update-status
StatusValues == {"active", "paused", "closed"}

\* req.body.username and req.body.password of login
Usernames == {"Abhay", "abhay"}
Passwords == {"Abhay123", ""}

Next ==
    \/ \E s \in Bodies : Initiate(s) /\ UNCHANGED client
    \/ \E s \in SubmitBodies : Submit(s) /\ UNCHANGED client
    \/ \E u \in Usernames, pw \in Passwords : Login(u, pw) /\ UNCHANGED client
    \/ GetPayments /\ UNCHANGED client
    \/ GetTrash /\ UNCHANGED client
    \/ GetStatus /\ UNCHANGED client
    \/ \E v \in StatusValues : UpdateStatus(v) /\ UNCHANGED client
    \/ \E id \in Ids : DeletePayment(id) /\ UNCHANGED client
    \/ \E id \in Ids : RestorePayment(id) /\ UNCHANGED client
    \/ \E id \in Ids : PermanentDelete(id) /\ UNCHANGED client
    \/ ClearPayments /\ UNCHANGED client
    \/ RestorePayments /\ UNCHANGED client
    \/ EmptyTrash /\ UNCHANGED client
    \/ Tick /\ UNCHANGED client

Spec == Init /\ [][Next]_vars

\* ------------------------------------------------------- a day of many rows
\* The largest number that padStart(4, '0') writes with 4 digits.
MaxSeq == 10 ^ SeqWidth - 1

\* The table after n submissions of one body have succeeded at instant 0,
\* none of them removed: ids 1..n and the sequence numbers 1..n.
DayRows(n) ==
    {NewRow(i - 1,
            [prefix |-> "REC", date |-> DateStr(0),
             seq |-> PadStart(Digits(i), SeqWidth, 0)],
            Body(Some("A"), Some(Phone10), Some("X"), Some(100)), 0) :
        i \in 1..n}

\* payments.db on a day on which MaxSeq - 1 submissions have succeeded.
InitBusyDay ==
    /\ payments = DayRows(MaxSeq - 1)
    /\ sqlite_seq = MaxSeq - 1
    /\ setting = "active"
    /\ now = 0
    /\ last = Resp("start", NoArg, 0, NoErr, NoTid, 0)
    /\ snap = NoSnap
    /\ client = ClientInit

\* POST /api/submit-manual-payment, for up to ExtraRows rows beyond MaxSeq
SubmitBusyDay(s) ==
    /\ SubmitOutcome(payments, sqlite_seq, setting, now, s).code = 200 =>
           sqlite_seq < MaxSeq + ExtraRows
    /\ SubmitHandler(s)

NextBusyDay ==
    \/ \E s \in SubmitBodies : SubmitBusyDay(s) /\ UNCHANGED client
    \/ \E s \in Bodies : Initiate(s) /\ UNCHANGED client
    \/ \E v \in StatusValues : UpdateStatus(v) /\ UNCHANGED client

SpecBusyDay == InitBusyDay /\ [][NextBusyDay]_vars

\* -------------------------------------------------- the client and the server
\* One browser runs App against the server: a callback of the client is an
\* action up to its await, and the arrival of the response is another one,
\* taken together with the run of the handler that answers the request.
\* Between the two the client may run any other callback.

\* requests of one kind the model lets be in flight at a time
MaxInFlight == 1

\* onChange of the Name, Phone Number, Complete Address and Payment Amount
\* fields: the form is rendered in the 'form' view while payments are not
\* shown as paused.  The fields stay enabled while loading is set.
FormShown == client.view = "form" /\ client.paymentStatus # "paused"

EditName(v) ==
    /\ FormShown
    /\ [client.formData EXCEPT !.name = v] \in Typed
    /\ client' = [client EXCEPT !.formData.name = v]
    /\ UNCHANGED <<payments, sqlite_seq, setting, now, last, snap>>

EditPhone(v) ==
    /\ FormShown
    /\ [client.formData EXCEPT !.phone = v] \in Typed
    /\ client' = [client EXCEPT !.formData.phone = v]
    /\ UNCHANGED <<payments, sqlite_seq, setting, now, last, snap>>

EditAddress(v) ==
    /\ FormShown
    /\ [client.formData EXCEPT !.address = v] \in Typed
    /\ client' = [client EXCEPT !.formData.address = v]
    /\ UNCHANGED <<payments, sqlite_seq, setting, now, last, snap>>

EditAmount(v) ==
    /\ FormShown
    /\ [client.formData EXCEPT !.amount = v] \in Typed
    /\ client' = [client EXCEPT !.formData.amount = v]
    /\ UNCHANGED <<payments, sqlite_seq, setting, now, last, snap>>

\* handlePayment up to its await: the Pay Now button is disabled while
\* loading is set; a form that fails a check only sets the error banner.
HandlePayment ==
    /\ FormShown
    /\ ~client.loading
    /\ FormAccepted(client.formData)
    /\ Cardinality(client.initiating) < MaxInFlight
    /\ client' = [client EXCEPT
                     !.loading = TRUE,
                     !.initiating = @ \cup {[form |-> client.formData]}]
    /\ UNCHANGED <<payments, sqlite_seq, setting, now, last, snap>>

\* handlePayment after its await: the server answers the request.
InitiateReturns ==
    \E r \in client.initiating :
        /\ Initiate(JsonBody(r.form))
        /\ client' = IF last'.code = 200
                     THEN [client EXCEPT
                              !.upiUrl = last'.upiUrl,
                              !.view = "qr",
                              !.validated = Some(r.form),
                              !.loading = FALSE,
                              !.initiating = @ \ {r}]
                     ELSE [client EXCEPT
                              !.loading = FALSE,
                              !.initiating = @ \ {r}]

\* confirmPayment up to its await: a click on the QR code, which is rendered
\* in the 'qr' view and is not disabled while loading is set.
ConfirmPayment ==
    /\ client.view = "qr"
    /\ Cardinality(client.confirming) < MaxInFlight
    /\ client' = [client EXCEPT
                     !.loading = TRUE,
                     !.confirming = @ \cup
                         {[body |-> JsonBody(client.formData),
                           from |-> client.view,
                           validated |-> client.validated]}]
    /\ UNCHANGED <<payments, sqlite_seq, setting, now, last, snap>>

\* confirmPayment after its await: the server answers the request.
ConfirmReturns ==
    \E r \in client.confirming :
        /\ Submit(r.body)
        /\ client' = IF last'.code = 200
                     THEN [client EXCEPT
                              !.formData = IF client.noReceipts
                                           THEN EmptyForm ELSE @,
                              !.view = IF client.noReceipts
                                       THEN "form" ELSE "success",
                              !.loading = FALSE,
                              !.confirming = @ \ {r}]
                     ELSE [client EXCEPT
                              !.loading = FALSE,
                              !.confirming = @ \ {r}]

\* handleAdminLogin up to its await, with the texts of the two inputs.
HandleAdminLogin(username, password) ==
    /\ client.view = "admin-login"
    /\ Cardinality(client.logins) < MaxInFlight
    /\ client' = [client EXCEPT
                     !.logins = @ \cup {[username |-> username,
                                         password |-> password]}]
    /\ UNCHANGED <<payments, sqlite_seq, setting, now, last, snap>>

\* handleAdminLogin after its await: the server answers the request.
LoginReturns ==
    \E r \in client.logins :
        /\ Login(r.username, r.password)
        /\ client' = IF last'.success = Some(TRUE)
                     THEN [client EXCEPT
                              !.adminAuth = TRUE,
                              !.view = "admin-dashboard",
                              !.logins = @ \ {r}]
                     ELSE [client EXCEPT !.logins = @ \ {r}]

\* fetch rejects or res.json() throws: the catch and finally blocks of
\* handlePayment, confirmPayment and handleAdminLogin.
RequestFails ==
    /\ \/ \E r \in client.initiating :
              client' = [client EXCEPT !.loading = FALSE,
                                       !.initiating = @ \ {r}]
       \/ \E r \in client.confirming :
              client' = [client EXCEPT !.loading = FALSE,
                                       !.confirming = @ \ {r}]
       \/ \E r \in client.logins :
              client' = [client EXCEPT !.logins = @ \ {r}]
    /\ UNCHANGED <<payments, sqlite_seq, setting, now, last, snap>>

\* The dashboard is rendered in the 'admin-dashboard' view while adminAuth
\* is set.
DashboardShown == client.view = "admin-dashboard" /\ client.adminAuth

\* togglePaymentStatus, from the PLAY and PAUSE buttons of the dashboard,
\* with the answer of the server.
TogglePaymentStatus(newStatus) ==
    /\ DashboardShown
    /\ UpdateStatus(newStatus)
    /\ client' = IF last'.success = Some(TRUE)
                 THEN [client EXCEPT !.paymentStatus = newStatus]
                 ELSE client

\* onClick={() => setView('form')}: the title of the header in every view,
\* Cancel & Go Back of the QR view, and the back buttons of the success and
\* login views.
GoToForm ==
    /\ client.view # "form"
    /\ client' = [client EXCEPT !.view = "form"]
    /\ UNCHANGED <<payments, sqlite_seq, setting, now, last, snap>>

\* onClick={() => setView('admin-login')}: the two Admin Login buttons of
\* the 'form' view.
GoToAdminLogin ==
    /\ client.view = "form"
    /\ client' = [client EXCEPT !.view = "admin-login"]
    /\ UNCHANGED <<payments, sqlite_seq, setting, now, last, snap>>

\* The Logout button of the header, rendered in the 'admin-dashboard' view.
Logout ==
    /\ client.view = "admin-dashboard"
    /\ client' = [client EXCEPT !.adminAuth = FALSE, !.view = "form"]
    /\ UNCHANGED <<payments, sqlite_seq, setting, now, last, snap>>

\* What the model types into the two inputs of the login view.
LoginInputs == {<<"Abhay", "Abhay123">>, <<"abhay", "Abhay123">>}

\* The togglePaymentStatus buttons pass 'active' or 'paused'.
ToggleValues == {"active", "paused"}

NextClient ==
    \/ \E v \in Names : EditName(v)
    \/ \E v \in Phones : EditPhone(v)
    \/ \E v \in Addresses : EditAddress(v)
    \/ \E v \in Amounts : EditAmount(v)
    \/ HandlePayment
    \/ InitiateReturns
    \/ ConfirmPayment
    \/ ConfirmReturns
    \/ \E c \in LoginInputs : HandleAdminLogin(c[1], c[2])
    \/ LoginReturns
    \/ RequestFails
    \/ \E v \in ToggleValues : TogglePaymentStatus(v)
    \/ GoToForm
    \/ GoToAdminLogin
    \/ Logout

SpecClient == Init /\ [][NextClient]_vars

\* ================================================================ claims
\* A valid submission: all fields present and non-empty, a phone of exactly
\* 10 digits, a numeric amount of at least 100.
ValidSubmission(s) ==
    /\ s.name # NULL /\ Val(s.name) # ""
    /\ s.address # NULL /\ Val(s.address) # ""
    /\ s.phone # NULL
    /\ Len(Val(s.phone)) = 10
    /\ \A i \in 1..Len(Val(s.phone)) : Val(s.phone)[i] \in 0..9
    /\ s.amount # NULL /\ Val(s.amount) >= 100

\* Two distinct valid bodies, for two submissions at once.
TwoValidBodies ==
    { Body(Some("A"), Some(Phone10), Some("X"), Some(100)),
      Body(Some("B"), Some(Phone10), Some("Y"), Some(250)) }

\* Some handler of the payment routes runs in this step.
InitiateStep == last'.op = "initiate" /\ \E s \in Bodies : Initiate(s)
SubmitStep == last'.op = "submit" /\ \E s \in SubmitBodies : Submit(s)

\* The last handler was a submission of a valid body with the gate active.
ValidSubmitDone ==
    /\ last.op = "submit"
    /\ setting = "active"
    /\ ValidSubmission(Val(last.arg))

\* C1: in every reachable state no two rows of the table, trashed or not,
\* have the same transaction_id.
C1_TransactionIdUnique ==
    \A p, q \in payments : p.transaction_id = q.transaction_id => p = q

\* C1 witness: the store holds a trashed row and has just refused a valid
\* submission whose generated id was already taken.
C1_Witness ==
    /\ ValidSubmitDone
    /\ last.code = 500
    /\ \E p \in payments : p.is_trashed = 1

\* C2: a valid submission with the gate active produces a persisted row
\* whose transaction_id is REC-{today}-{4-digit seq} and differs from the
\* transaction_id of every other row.
C2_ConfirmPersists ==
    ValidSubmitDone =>
        /\ last.code = 200
        /\ \E p \in payments :
              /\ Some(p.transaction_id) = last.tid
              /\ p.transaction_id.prefix = "REC"
              /\ p.transaction_id.date = DateStr(p.created_at)
              /\ Len(p.transaction_id.seq) = SeqWidth
              /\ p.name = Val(last.arg).name
              /\ p.phone = Val(last.arg).phone
              /\ p.address = Val(last.arg).address
              /\ p.amount = Val(last.arg).amount
              /\ \A q \in payments \ {p} : q.transaction_id # p.transaction_id

\* C3: while the gate is paused, initiate and submit answer 403 (payments
\* paused) and leave the table and the AUTOINCREMENT counter as they were.
C3_PausedRejects ==
    [][(setting = "paused" /\ (InitiateStep \/ SubmitStep)) =>
          /\ last'.code = 403
          /\ last'.error = "paused"
          /\ last'.tid = NoTid
          /\ last'.upiUrl = <<>>
          /\ payments' = payments
          /\ sqlite_seq' = sqlite_seq]_vars

\* C3 witness: a submission was refused with 403 while rows exist.
C3_Witness ==
    /\ last.op = "submit"
    /\ last.code = 403
    /\ setting = "paused"
    /\ payments # {}

\* C4: in every reachable state with the gate active, two simultaneous
\* submissions of valid, distinct bodies, in whichever order their handlers
\* run, store two new rows with two distinct transaction ids and lose none.
C4_NoLostSubmission ==
    setting = "active" =>
        \A s1, s2 \in TwoValidBodies :
            (s1 # s2 /\ ValidSubmission(s1) /\ ValidSubmission(s2)) =>
                LET o1 == SubmitOutcome(payments, sqlite_seq, setting, now, s1)
                    o2 == SubmitOutcome(o1.table, o1.seqno, setting, now, s2)
                IN  /\ o1.code = 200
                    /\ o2.code = 200
                    /\ o1.tid # o2.tid
                    /\ payments \subseteq o2.table
                    /\ Cardinality(o2.table) = Cardinality(payments) + 2

\* C5: a row leaves the table only in a permanent-delete or empty-trash
\* step, and only if it was trashed in the state before the step.
C5_OnlyTrashedRowsLeave ==
    [][\A p \in payments :
          (\A q \in payments' : q.id # p.id) =>
              /\ p.is_trashed = 1
              /\ \/ EmptyTrash
                 \/ \E id \in Ids : id = p.id /\ PermanentDelete(id)]_vars

\* C5 witness: permanent-delete has removed a row (ids 1..sqlite_seq were
\* handed out) and an active row is still there.
C5_Witness ==
    /\ last.op = "permanent-delete"
    /\ \E p \in payments : p.is_trashed = 0
    /\ Cardinality(payments) < sqlite_seq

\* C6: initiate and submit with an invalid body fail with a validation
\* error and change nothing.
C6_InvalidRejected ==
    [][\A s \in Bodies :
          (~ValidSubmission(s) /\ (Initiate(s) \/ Submit(s))) =>
              /\ last'.code # 200
              /\ last'.upiUrl = <<>>
              /\ payments' = payments
              /\ sqlite_seq' = sqlite_seq
              /\ setting' = setting]_vars

\* C7: every row has non-empty name, phone and address, a phone of exactly
\* 10 digits and an amount of at least 100.
C7_RowsValid ==
    \A p \in payments :
        ValidSubmission(Body(p.name, p.phone, p.address, p.amount))

\* C8: a submission whose INSERT hit an existing transaction_id has retried
\* the INSERT with a regenerated id and, if every attempt collided, answers
\* Conflict.
C8_RetriesOnDuplicate ==
    (ValidSubmitDone /\ last.code # 200) =>
        /\ last.inserts >= 2
        /\ last.error = "Conflict"

C10_Original ==
    (last.op = "restore-payments" /\ snap.taken) =>
        ActiveRows(payments) = ActiveRows(snap.table)

\* C10 amended: clear-payments followed at once by restore-payments leaves
\* every row of the table active: the rows that were active before, with
\* the same ids and field values, and the rows that were already trashed,
\* restored. The active set is the earlier one exactly when no row was
\* trashed before clear-payments.
C10_ClearThenRestore ==
    (last.op = "restore-payments" /\ snap.taken) =>
        /\ ActiveRows(payments) =
              ActiveRows(snap.table) \cup
              {[p EXCEPT !.is_trashed = 0] : p \in TrashedRows(snap.table)}
        /\ TrashedRows(payments) = {}
        /\ (ActiveRows(payments) = ActiveRows(snap.table))
              <=> (TrashedRows(snap.table) = {})

\* C10 witness: the round trip ran on a table that held both an active and
\* a trashed row.
C10_Witness ==
    /\ last.op = "restore-payments"
    /\ snap.taken
    /\ ActiveRows(snap.table) # {}
    /\ TrashedRows(snap.table) # {}

\* The id names no row of the table / names a row that is not trashed.
AbsentId(id) == \A p \in payments : p.id # id
ActiveId(id) == \E p \in payments : p.id = id /\ p.is_trashed = 0
TrashedId(id) == \E p \in payments : p.id = id /\ p.is_trashed = 1

\* C11: delete-payment, restore-payment and permanent-delete with an id that
\* names no row, and permanent-delete with the id of a row that is not
\* trashed, do not throw (no 500), leave the table, the counter and the
\* setting as they were, and answer success = false.
C11_NoOpReportsFailure ==
    [][\A id \in Ids :
          (\/ AbsentId(id) /\ ( \/ DeletePayment(id)
                                \/ RestorePayment(id)
                                \/ PermanentDelete(id) )
           \/ ActiveId(id) /\ PermanentDelete(id)) =>
              /\ last'.code # 500
              /\ payments' = payments
              /\ sqlite_seq' = sqlite_seq
              /\ setting' = setting
              /\ last'.success = Some(FALSE)]_vars

\* Some handler of the admin routes other than login runs in this step.
PrivilegedStep ==
    \/ \E v \in StatusValues : UpdateStatus(v)
    \/ \E id \in Ids : DeletePayment(id) \/ RestorePayment(id)
                         \/ PermanentDelete(id)
    \/ ClearPayments
    \/ RestorePayments
    \/ EmptyTrash

\* C12: an admin request takes effect only after a successful login. Stated
\* for the first request the server handles, before which no login can have
\* succeeded: the request is not answered with success and leaves the table,
\* the counter and the setting as they were.
C12_PrivilegedNeedsLogin ==
    [][(last.op = "start" /\ PrivilegedStep) =>
          /\ last'.success # Some(TRUE)
          /\ payments' = payments
          /\ sqlite_seq' = sqlite_seq
          /\ setting' = setting]_vars

\* C13: permanent-delete of a row that is not trashed changes nothing;
\* permanent-delete of a trashed row removes exactly that row, which is then
\* in neither listing; and an id that was handed out and is no longer in the
\* table is in the table after no step, restore-payment and restore-payments
\* included.
C13_PurgeIsPermanent ==
    [][/\ last'.op = "permanent-delete" =>
             \A id \in Ids :
                 PermanentDelete(id) =>
                     IF TrashedId(id)
                     THEN /\ payments' = {p \in payments : p.id # id}
                          /\ \A q \in ActiveRows(payments') \cup
                                      TrashedRows(payments') : q.id # id
                     ELSE payments' = payments
       /\ payments' # payments =>
             \A id \in 1..sqlite_seq :
                 AbsentId(id) => \A q \in payments' : q.id # id]_vars

\* C13 witness: restore-payments has run after a row was removed, and rows
\* remain.
C13_Witness ==
    /\ last.op = "restore-payments"
    /\ Cardinality(payments) < sqlite_seq
    /\ payments # {}

\* C14: a valid submission with the gate active on a day whose rows would
\* give it a sequence number above MaxSeq fails with CapacityExceeded and
\* stores nothing, and after no step does the table hold a row whose
\* sequence field is not SeqWidth digits long or whose transaction_id
\* another row has.
C14_CapacityExceeded ==
    [][/\ \A s \in SubmitBodies :
             (/\ setting = "active"
              /\ ValidSubmission(s)
              /\ CountToday(payments, now) + 1 > MaxSeq
              /\ SubmitBusyDay(s)) =>
                 /\ last'.error = "CapacityExceeded"
                 /\ payments' = payments
                 /\ sqlite_seq' = sqlite_seq
       /\ \A p \in payments' \ payments :
             /\ Len(p.transaction_id.seq) = SeqWidth
             /\ \A q \in payments : q.transaction_id # p.transaction_id]_vars

\* The sequence number k as the transactionId shows it.
SeqField(k) == PadStart(Digits(k), SeqWidth, 0)

\* The rows of the table created on the day of instant t.
RowsOfDay(table, t) == {p \in table : DayOf(p.created_at) = DayOf(t)}

\* The rows of the day of t carry the date of that day and, in the order of
\* their insertion, the sequence numbers 0001, 0002, ...
DayInSequence(table, t) ==
    \A p \in RowsOfDay(table, t) :
        /\ p.transaction_id.prefix = "REC"
        /\ p.transaction_id.date = DateStr(t)
        /\ p.transaction_id.seq =
              SeqField(1 + Cardinality({q \in RowsOfDay(table, t) : q.id < p.id}))

\* C15: a day starts with no row of its own, and as long as no row of the
\* current day is removed the rows of the day stay numbered 0001, 0002, ...
\* in the order of their insertion: the k-th successful submission of the
\* day gets REC-{day}-{k, 4 digits}, whatever rows earlier days have left.
C15_DailySequence ==
    [][/\ (now' # now /\ DayOf(now') # DayOf(now)) =>
              RowsOfDay(payments', now') = {}
       /\ (/\ payments' # payments \/ now' # now
           /\ DayInSequence(payments, now)
           /\ \A p \in RowsOfDay(payments, now) :
                 \E q \in payments' : q.id = p.id) =>
              /\ DayInSequence(payments', now')
              /\ \A p \in payments' \ payments :
                    (\A q \in payments : q.id # p.id) =>
                        /\ last'.tid = Some(p.transaction_id)
                        /\ p.transaction_id.seq =
                              SeqField(1 + Cardinality(RowsOfDay(payments, now)))
                        /\ p.transaction_id.date = DateStr(now)]_vars

\* C15 witness: no row was ever removed, an earlier day has left a row, and
\* the submission that has just succeeded is the first of its day and got
\* the sequence number 0001.
C15_Witness ==
    /\ last.op = "submit"
    /\ last.code = 200
    /\ Cardinality(payments) = sqlite_seq
    /\ Val(last.tid).seq = SeqField(1)
    /\ \E p \in payments : DayOf(p.created_at) < DayOf(now)

\* C16: the setting starts at active and is active or paused in every
\* state, and update-status with any other value answers 400 (Invalid
\* status) and leaves the setting and the table as they were.
C16_GateWellFormed ==
    /\ setting = "active"
    /\ [](setting \in {"active", "paused"})
    /\ [][last'.op = "update-status" =>
           \A v \in StatusValues :
             (v \notin {"active", "paused"} /\ UpdateStatus(v)) =>
                 /\ last'.code = 400
                 /\ last'.error = "Invalid status"
                 /\ last'.success # Some(TRUE)
                 /\ setting' = setting
                 /\ payments' = payments]_vars

\* C16 witness: update-status has refused a value while the gate is paused.
C16_Witness ==
    /\ last.op = "update-status"
    /\ last.code = 400
    /\ setting = "paused"

\* C17: update-status with active or paused has stored the value when it
\* returns, no other step changes the setting, GET /api/payment-status
\* answers the stored value, and while the stored value is paused initiate
\* and submit answer 403 and create no row.
C17_ReadAfterWrite ==
    [][/\ last'.op = "update-status" =>
             \A v \in {"active", "paused"} : UpdateStatus(v) => setting' = v
       /\ setting' # setting => \E v \in StatusValues : UpdateStatus(v)
       /\ (last'.op = "payment-status" /\ GetStatus) =>
              /\ last'.code = 200
              /\ last'.value = Some(setting)
       /\ (setting = "paused" /\ (InitiateStep \/ SubmitStep)) =>
              /\ last'.code = 403
              /\ payments' = payments]_vars

\* C17 witness: GET /api/payment-status has answered paused while the table
\* holds a row.
C17_Witness ==
    /\ last.op = "payment-status"
    /\ last.value = Some("paused")
    /\ payments # {}

\* The rows of the table other than the row of the id.
OtherRows(table, id) == {p \in table : p.id # id}

\* The row of the id, as a set of at most one row.
RowOf(table, id) == {p \in table : p.id = id}

\* C18: delete-payment with the id of a row, trashed or not, answers 200
\* without error, leaves the row trashed and all its other fields, all
\* other rows, the counter and the setting as they were; and the UPDATE of
\* a second delete-payment with the same id changes nothing in the table
\* the first has left.
C18_TrashIdempotent ==
    [][last'.op = "delete-payment" =>
        \A id \in Ids :
          (~AbsentId(id) /\ DeletePayment(id)) =>
              /\ last'.code = 200
              /\ last'.error = NoErr
              /\ RowOf(payments', id) =
                    {[p EXCEPT !.is_trashed = 1] : p \in RowOf(payments, id)}
              /\ OtherRows(payments', id) = OtherRows(payments, id)
              /\ sqlite_seq' = sqlite_seq
              /\ setting' = setting
              /\ SetTrashedById(payments', id, 1) = payments']_vars

\* C18 witness: delete-payment has run, and the table holds a trashed and an
\* active row.
C18_Witness ==
    /\ last.op = "delete-payment"
    /\ TrashedRows(payments) # {}
    /\ ActiveRows(payments) # {}

\* C19: after delete-payment with the id of a row, the UPDATE of
\* restore-payment with the same id yields the row as it was before
\* delete-payment with is_trashed = 0 (id, transaction_id, name, phone,
\* address, amount, status and created_at as before) and the other rows as
\* they were; and every restore-payment step changes is_trashed of its row
\* and nothing else.
C19_TrashRestoreRoundTrip ==
    [][last'.op \in {"delete-payment", "restore-payment"} =>
        \A id \in Ids :
          /\ (last'.op = "delete-payment" /\ ~AbsentId(id)
                 /\ DeletePayment(id)) =>
                LET back == SetTrashedById(payments', id, 0)
                IN  /\ RowOf(back, id) =
                          {[p EXCEPT !.is_trashed = 0] : p \in RowOf(payments, id)}
                    /\ OtherRows(back, id) = OtherRows(payments, id)
          /\ (last'.op = "restore-payment" /\ ~AbsentId(id)
                 /\ RestorePayment(id)) =>
                /\ last'.code = 200
                /\ RowOf(payments', id) =
                      {[p EXCEPT !.is_trashed = 0] : p \in RowOf(payments, id)}
                /\ OtherRows(payments', id) = OtherRows(payments, id)]_vars

\* C19 witness: restore-payment has run after a row was trashed (another
\* row is still trashed), and the table holds an active row.
C19_Witness ==
    /\ last.op = "restore-payment"
    /\ TrashedRows(payments) # {}
    /\ ActiveRows(payments) # {}

\* C20: login answers 200 with success = true exactly when username and
\* password both equal the configured credentials, and 401 with success =
\* false (Invalid credentials) otherwise; it leaves the table, the counter
\* and the setting as they were; and a login with the configured
\* credentials succeeds also right after a login that failed.
C20_LoginByCredentials ==
    [][last'.op = "login" =>
        \A u \in Usernames, pw \in Passwords :
          Login(u, pw) =>
              /\ IF u = adminUser /\ pw = adminPass
                 THEN /\ last'.code = 200
                      /\ last'.success = Some(TRUE)
                 ELSE /\ last'.code = 401
                      /\ last'.success = Some(FALSE)
                      /\ last'.error = "Invalid credentials"
                      /\ last'.token = NULL
              /\ payments' = payments
              /\ sqlite_seq' = sqlite_seq
              /\ setting' = setting
              /\ (last.op = "login" /\ last.code = 401
                    /\ u = adminUser /\ pw = adminPass) => last'.code = 200]_vars

\* C20 witness: a login has succeeded while the table holds a row and the
\* gate is paused.
C20_Witness ==
    /\ last.op = "login"
    /\ last.code = 200
    /\ payments # {}
    /\ setting = "paused"

\* The rows a listing has answered, as a set.
Listed(r) == {r[i] : i \in 1..Len(r)}

\* No row of the sequence comes after a row that was created before it (rows
\* are created in the order of their ids).
NewestFirst(r) == \A i, j \in 1..Len(r) : i < j => r[i].id > r[j].id

\* C21: every row is in exactly one of the two row sets the listings select,
\* GET /api/admin/payments answers exactly the rows that are not trashed and
\* GET /api/admin/trash exactly the trashed rows, each row once, and in both
\* answers no row comes after a row created before it.
C21_ListingsNewestFirst ==
    /\ ActiveRows(payments) \cup TrashedRows(payments) = payments
    /\ ActiveRows(payments) \cap TrashedRows(payments) = {}
    /\ last.op = "payments" =>
          /\ Listed(Val(last.rows)) = ActiveRows(payments)
          /\ Len(Val(last.rows)) = Cardinality(ActiveRows(payments))
          /\ NewestFirst(Val(last.rows))
    /\ last.op = "trash" =>
          /\ Listed(Val(last.rows)) = TrashedRows(payments)
          /\ Len(Val(last.rows)) = Cardinality(TrashedRows(payments))
          /\ NewestFirst(Val(last.rows))

\* The ids of the rows of a table.
IdsOf(table) == {p.id : p \in table}

\* C22: the handler that runs next after clear-payments, restore-payments or
\* empty-trash finds the whole batch applied: a listing answers no active
\* row after clear-payments, no trashed row after restore-payments and after
\* empty-trash, and all rows of the table on the other side; and a
\* delete-payment or restore-payment that runs next changes its own row on
\* top of the whole batch, neither lost nor undoing the batch for another
\* row.
C22_BulkAtomic ==
    [][/\ (last'.op = "payments" /\ last.op = "clear-payments"
              /\ GetPayments) => Val(last'.rows) = <<>>
       /\ (last'.op = "payments" /\ last.op = "restore-payments"
              /\ GetPayments) =>
             IdsOf(Listed(Val(last'.rows))) = IdsOf(payments)
       /\ (last'.op = "trash" /\ last.op = "clear-payments" /\ GetTrash) =>
             IdsOf(Listed(Val(last'.rows))) = IdsOf(payments)
       /\ (last'.op = "trash"
              /\ last.op \in {"restore-payments", "empty-trash"}
              /\ GetTrash) => Val(last'.rows) = <<>>
       /\ (last.op = "clear-payments" /\ last'.op = "restore-payment") =>
             \A id \in Ids :
                 (~AbsentId(id) /\ RestorePayment(id)) =>
                     /\ IdsOf(ActiveRows(payments')) = {id}
                     /\ IdsOf(payments') = IdsOf(payments)
       /\ (last.op = "restore-payments" /\ last'.op = "delete-payment") =>
             \A id \in Ids :
                 (~AbsentId(id) /\ DeletePayment(id)) =>
                     /\ IdsOf(TrashedRows(payments')) = {id}
                     /\ IdsOf(payments') = IdsOf(payments)]_vars

\* C22 witness: GET /api/admin/trash has answered two rows at once and no
\* row is active.
C22_Witness ==
    /\ last.op = "trash"
    /\ Len(Val(last.rows)) >= 2
    /\ ActiveRows(payments) = {}

\* C23: a transaction_id that a row holds is never given to another row,
\* also not after the row has been removed, and the sequence numbers of one
\* day increase from each created row to the next: in every state with the
\* gate active, removing a trashed row by permanent-delete and then
\* submitting a valid body does not give the new row the transaction_id of
\* the removed row, nor a sequence number that a row of the day holds.
C23_NeverReassigned ==
    setting = "active" =>
        \A r \in TrashedRows(payments) :
            \A s \in TwoValidBodies :
                LET after == DeleteTrashedById(payments, r.id)
                    out == SubmitOutcome(after, sqlite_seq, setting, now, s)
                IN  out.code = 200 =>
                        /\ Val(out.tid) # r.transaction_id
                        /\ \A q \in RowsOfDay(payments, now) :
                              Val(out.tid).seq # q.transaction_id.seq

\* C24: a row that is in the table before and after a step has the same id,
\* transaction_id, name, phone, address, amount, status and created_at after
\* it, and its is_trashed differs only if the step is a delete-payment,
\* restore-payment, clear-payments or restore-payments step.
C24_OnlyTrashedFlagChanges ==
    [][payments' # payments =>
          \A p \in payments :
              \A q \in payments' :
                  q.id = p.id =>
                      /\ q = [p EXCEPT !.is_trashed = q.is_trashed]
                      /\ q.is_trashed # p.is_trashed =>
                            \/ \E id \in Ids : DeletePayment(id)
                            \/ \E id \in Ids : RestorePayment(id)
                            \/ ClearPayments
                            \/ RestorePayments]_vars

\* C24 witness: restore-payments has run, and the table holds the rows of
\* two submissions, active, while a third row was removed.
C24_Witness ==
    /\ last.op = "restore-payments"
    /\ Cardinality(ActiveRows(payments)) = 2
    /\ sqlite_seq = 3

\* C25: an initiate step, answered 200 or not, leaves the table, the
\* counter and the setting as they were, and the transactionId that a
\* submission would generate after it is the one it would have generated
\* before it.
C25_InitiatePersistsNothing ==
    [][last'.op = "initiate" =>
          (InitiateStep =>
              /\ payments' = payments
              /\ sqlite_seq' = sqlite_seq
              /\ setting' = setting
              /\ now' = now
              /\ TransactionId(payments', now') = TransactionId(payments, now))]_vars

\* C25 witness: initiate has answered 200 with a upiUrl while the table
\* holds a row of the current day.
C25_Witness ==
    /\ last.op = "initiate"
    /\ last.code = 200
    /\ last.upiUrl # <<>>
    /\ RowsOfDay(payments, now) # {}

\* A step of one of the routes that trash or restore rows.
TrashOrRestoreStep ==
    \/ last'.op = "delete-payment" /\ \E id \in Ids : DeletePayment(id)
    \/ last'.op = "restore-payment" /\ \E id \in Ids : RestorePayment(id)
    \/ last'.op = "clear-payments" /\ ClearPayments
    \/ last'.op = "restore-payments" /\ RestorePayments

\* C26: the transactionId a submission generates carries the sequence number
\* 1 + the number of rows created on the current day, trashed or not, and a
\* delete-payment, restore-payment, clear-payments or restore-payments step
\* does not change the transactionId the next submission generates.
C26_CountIgnoresTrash ==
    [][/\ TrashOrRestoreStep =>
             TransactionId(payments', now') = TransactionId(payments, now)
       /\ (last'.op = "submit" /\ last'.code = 200
              /\ payments' # payments) =>
             /\ Val(last'.tid).seq =
                   SeqField(1 + Cardinality(RowsOfDay(payments, now)))
             /\ Val(last'.tid).date = DateStr(now)]_vars

\* C26 witness: a submission has succeeded with a sequence number above 1
\* while a row of the current day is trashed.
C26_Witness ==
    /\ last.op = "submit"
    /\ last.code = 200
    /\ Val(last.tid).seq # SeqField(1)
    /\ \E p \in RowsOfDay(payments, now) : p.is_trashed = 1

\* C27: every row of the table has status "success", and the row of the
\* submission that has just been answered 200 has status "success" and
\* is_trashed = 0, is among the rows GET /api/admin/payments selects and not
\* among the rows GET /api/admin/trash selects.
C27_NewRowActiveSuccess ==
    /\ \A p \in payments : p.status = "success"
    /\ (last.op = "submit" /\ last.code = 200) =>
          \E p \in payments :
              /\ Some(p.transaction_id) = last.tid
              /\ p.id = sqlite_seq
              /\ p.status = "success"
              /\ p.is_trashed = 0
              /\ p \in ActiveRows(payments)
              /\ p \notin TrashedRows(payments)
              /\ \A r \in OrderByCreatedAtDesc(ActiveRows(payments)) :
                    p \in Listed(r)
              /\ \A r \in OrderByCreatedAtDesc(TrashedRows(payments)) :
                    p \notin Listed(r)

\* C27 witness: a submission has been answered 200 while another row of the
\* table is trashed.
C27_Witness ==
    /\ last.op = "submit"
    /\ last.code = 200
    /\ TrashedRows(payments) # {}
    /\ Cardinality(payments) = 2

\* The rows of a table with is_trashed set to v.
WithFlag(table, v) == {[p EXCEPT !.is_trashed = v] : p \in table}

\* C28: clear-payments leaves no row active and the same rows in the table,
\* all trashed; restore-payments leaves no row trashed and the same rows,
\* all active; empty-trash leaves no row trashed and the active rows exactly
\* as they were; none of the three changes the setting or the counter.
C28_BulkExactTargets ==
    [][/\ (last'.op = "clear-payments" /\ ClearPayments) =>
             /\ ActiveRows(payments') = {}
             /\ payments' = WithFlag(payments, 1)
             /\ IdsOf(payments') = IdsOf(payments)
             /\ setting' = setting /\ sqlite_seq' = sqlite_seq
       /\ (last'.op = "restore-payments" /\ RestorePayments) =>
             /\ TrashedRows(payments') = {}
             /\ payments' = WithFlag(payments, 0)
             /\ IdsOf(payments') = IdsOf(payments)
             /\ setting' = setting /\ sqlite_seq' = sqlite_seq
       /\ (last'.op = "empty-trash" /\ EmptyTrash) =>
             /\ TrashedRows(payments') = {}
             /\ ActiveRows(payments') = ActiveRows(payments)
             /\ payments' = ActiveRows(payments)
             /\ setting' = setting /\ sqlite_seq' = sqlite_seq]_vars

\* C28 witness: empty-trash has removed a row and left an active row, with
\* the gate paused.
C28_Witness ==
    /\ last.op = "empty-trash"
    /\ ActiveRows(payments) # {}
    /\ Cardinality(payments) < sqlite_seq
    /\ setting = "paused"

\* The step leaves the rows of all other ids, the setting and the counter
\* as they were and adds no row.
OnlyRowTouched(id) ==
    /\ OtherRows(payments', id) = OtherRows(payments, id)
    /\ IdsOf(payments') \subseteq IdsOf(payments)
    /\ setting' = setting
    /\ sqlite_seq' = sqlite_seq

\* C29: a delete-payment, restore-payment or permanent-delete step with the
\* id of its request leaves every row of another id in the table, with
\* is_trashed and all other fields as they were, adds no row, and leaves the
\* setting and the counter as they were.
C29_SingleRowOnly ==
    [][/\ last'.op = "delete-payment" =>
             \A id \in Ids : DeletePayment(id) => OnlyRowTouched(id)
       /\ last'.op = "restore-payment" =>
             \A id \in Ids : RestorePayment(id) => OnlyRowTouched(id)
       /\ last'.op = "permanent-delete" =>
             \A id \in Ids : PermanentDelete(id) => OnlyRowTouched(id)]_vars

\* C29 witness: permanent-delete has removed a row while another trashed
\* row is still in the table.
C29_Witness ==
    /\ last.op = "permanent-delete"
    /\ TrashedRows(payments) # {}
    /\ Cardinality(payments) < sqlite_seq

\* C30: the setting has another value after a step only if the step is an
\* update-status step whose status is active or paused and is the new
\* value; no step of any other route, whatever it answers, changes it.
C30_OnlyUpdateStatusWrites ==
    [][/\ setting' # setting =>
             /\ last'.op = "update-status"
             /\ last'.code = 200
             /\ \E v \in {"active", "paused"} : v = setting' /\ UpdateStatus(v)
       /\ last'.op # "update-status" => setting' = setting]_vars

\* C30 witness: the gate is paused, the table holds a trashed row, and a
\* listing has run since.
C30_Witness ==
    /\ setting = "paused"
    /\ last.op = "trash"
    /\ Val(last.rows) # <<>>

\* C31: in every state the rows of the table have pairwise distinct ids, all
\* among the ids 1..sqlite_seq handed out so far; the counter never
\* decreases, and a row that a step adds gets an id above every id handed out
\* before, so the id of a removed row is never given to a later row.
C31_IdNeverReused ==
    /\ [](/\ \A p, q \in payments : p.id = q.id => p = q
          /\ \A p \in payments : p.id \in 1..sqlite_seq)
    /\ [][payments' # payments =>
             /\ sqlite_seq' >= sqlite_seq
             /\ \A q \in payments' :
                   q.id \notin IdsOf(payments) =>
                       /\ q.id > sqlite_seq
                       /\ q.id = sqlite_seq']_vars

\* C31 witness: a submission has stored a row after an earlier row was
\* removed by permanent-delete or empty-trash.
C31_Witness ==
    /\ last.op = "submit"
    /\ last.code = 200
    /\ \E p \in payments : p.id = sqlite_seq
    /\ Cardinality(payments) < sqlite_seq

\* C32: what a submission does is a function of its body, the setting, the
\* table, the counter and the clock alone: a submission step is the outcome
\* computed from these in the state before it, whatever handler ran before
\* and whatever that handler was given, and an initiate step, whatever its
\* body, changes none of them.
C32_SubmitIgnoresInitiate ==
    [][/\ last'.op = "initiate" =>
             (InitiateStep =>
                 /\ payments' = payments
                 /\ sqlite_seq' = sqlite_seq
                 /\ setting' = setting
                 /\ now' = now)
       /\ (last'.op = "submit" /\ now' = now) =>
             [code |-> last'.code, error |-> last'.error, tid |-> last'.tid,
              inserts |-> last'.inserts, table |-> payments',
              seqno |-> sqlite_seq'] =
                 SubmitOutcome(payments, sqlite_seq, setting, now,
                               Val(last'.arg))]_vars

\* C32 witness: initiate has answered 200 for a body with amount 99, and a
\* submission of another body with amount 100 would be stored.
C32_Witness ==
    /\ last.op = "initiate"
    /\ last.code = 200
    /\ last.upiUrl = UpiUrl(Body(Some("A"), Some(Phone10), Some("X"), Some(99)))
    /\ payments # {}
    /\ SubmitOutcome(payments, sqlite_seq, setting, now,
                     Body(Some("A"), Some(Phone10), Some("X"), Some(100))).code
          = 200

\* The 'qr' view is entered only by the answer, without error, to an
\* initiate request whose form had every field, a phone number of 10
\* digits and an amount of at least 100.
QrOnlyAfterValidation ==
    [][(client'.view = "qr" /\ client.view # "qr") =>
          /\ last'.op = "initiate"
          /\ last'.code = 200
          /\ \E r \in client.initiating :
                /\ r \notin client'.initiating
                /\ ~FieldMissing(r.form)
                /\ TenDigits(r.form.phone)
                /\ ParseFloat(r.form.amount) # NULL
                /\ Val(ParseFloat(r.form.amount)) >= 100]_vars

\* A confirm request is sent only from the 'qr' view.
ConfirmOnlyFromQr ==
    [][\A r \in client'.confirming \ client.confirming :
          r.from = "qr" /\ client.view = "qr"]_vars

\* A confirm request carries the form that was validated for the 'qr' view.
ConfirmCarriesValidated ==
    [][\A r \in client'.confirming \ client.confirming :
          /\ r.validated # NULL
          /\ r.body = JsonBody(Val(r.validated))]_vars

\* The dashboard is shown only while adminAuth is set; adminAuth is set only
\* by the answer to a login request that reports success, and Logout clears
\* it.
AdminAuthDiscipline ==
    /\ [](DashboardShown => client.adminAuth)
    /\ [][/\ (~client.adminAuth /\ client'.adminAuth) =>
                /\ last'.op = "login"
                /\ last'.success = Some(TRUE)
                /\ client'.logins # client.logins
          /\ Logout => ~client'.adminAuth]_vars

\* C33: the 'qr' view is entered only after the form has passed the checks
\* of the client and the initiate request has been answered without error;
\* a confirm request is sent only from the 'qr' view and carries the form
\* that was validated; the dashboard is shown only while adminAuth is set,
\* which only a successful login sets and which Logout clears.
C33_ClientFlow ==
    /\ QrOnlyAfterValidation
    /\ ConfirmOnlyFromQr
    /\ ConfirmCarriesValidated
    /\ AdminAuthDiscipline

====
